---- MODULE Spec2Model ----
(***************************************************************************)
(* The libvirt_pool resource of terraform-provider-libvirt: create, read,  *)
(* delete, exists and import of a storage pool against one hypervisor      *)
(* connection and one name-keyed lock registry shared by every concurrent  *)
(* invocation.                                                             *)
(*                                                                         *)
(* Each process is one resource instance (one schema.ResourceData).  The   *)
(* create handler is split at its hypervisor calls, because other          *)
(* invocations and the world outside the tool can act between two calls;   *)
(* read, delete and exists are one step each, with every outcome of their  *)
(* hypervisor calls.  A hypervisor call on a pool that is present may      *)
(* succeed or fail; on a pool that is gone it fails.                       *)
(*                                                                         *)
(* Configurations carry either no stylesheet or one that fails to apply;   *)
(* stylesheets that rewrite the definition are not in the input set.       *)
(*                                                                         *)
(* Spec has every operation on pools the tool created.  FairSpec is the    *)
(* creates alone under fair scheduling, for progress.  DriftSpec is the    *)
(* reads of a pool that was defined, and is redefined, outside the tool.   *)
(***************************************************************************)
EXTENDS Integers, Sequences, FiniteSets

\* ------------------------------------------------------------------ bounds
Procs == {"p1", "p2"}
Names == {"a", "b"}
MaxOps == 2
MaxPollAttempts == 2
MaxDriftOps == 3

\* ------------------------------------------------------------- inputs
Types == {"dir", "logical", "zfs"}

NoProc == "none"
NoId == 0
NoPool == [name |-> "", type |-> "", path |-> "", active |-> FALSE,
           autostart |-> FALSE, present |-> FALSE]
NoTarget == "nil"

\* The declared configurations: for the first name one for each way through
\* create's checks, for the other names the plain dir pool
Shapes ==
    { [type |-> "dir",     path |-> "/x", devices |-> 0, xslt |-> ""],
      [type |-> "dir",     path |-> "",   devices |-> 0, xslt |-> ""],
      [type |-> "dir",     path |-> "/x", devices |-> 1, xslt |-> ""],
      [type |-> "dir",     path |-> "/x", devices |-> 0, xslt |-> "bad"],
      [type |-> "logical", path |-> "",   devices |-> 0, xslt |-> ""],
      [type |-> "logical", path |-> "",   devices |-> 1, xslt |-> ""],
      [type |-> "logical", path |-> "/x", devices |-> 0, xslt |-> ""],
      [type |-> "zfs",     path |-> "/x", devices |-> 0, xslt |-> ""] }
PlainDir == [type |-> "dir", path |-> "/y", devices |-> 0, xslt |-> ""]
WithName(n, sh) ==
    [name |-> n, type |-> sh.type, path |-> sh.path, devices |-> sh.devices,
     xslt |-> sh.xslt]
PoolSpecs ==
    { WithName("a", sh) : sh \in Shapes } \cup
    { WithName(n, PlainDir) : n \in Names \ {"a"} }
NoSpec == [name |-> "", type |-> "", path |-> "", devices |-> 0, xslt |-> ""]
NoState == [id |-> NoId, name |-> "", type |-> "", path |-> "", info |-> FALSE]

MaxUUID == Cardinality(Procs)
UUIDs == 1..MaxUUID

VARIABLES
    pools,      \* hypervisor: UUID -> storage pool (present or not)
    nextUUID,   \* hypervisor: the next UUID it hands out
    lock,       \* client.poolMutexKV: name -> holder
    cfg,        \* the declared configuration d.Get reads in create
    st,         \* the attributes d.Set writes, and d.Id()
    pc,         \* position of each invocation
    handle,     \* the pool handle create got from StoragePoolDefineXML
    polls,      \* lookups the existence poll has made
    op,         \* the operation invoked last
    err,        \* the error it returned ("none" for nil)
    found,      \* the boolean resourceLibvirtPoolExists returned
    issued,     \* hypervisor calls issued by the current invocation
    failed,     \* a hypervisor call of the invocation returned an error,
                \* other than the lookup by name of a name that is free
    lastLookup, \* outcome of the invocation's lookup by id
    ops,        \* reads, existence checks and deletes invoked so far
    madeBy,     \* UUID -> the instance whose create defined the pool
    meddled,    \* pools a delete or the world outside the tool acted on
    seen        \* the description the instance's last invocation parsed

vars == <<pools, nextUUID, lock, cfg, st, pc, handle, polls, op, err, found,
          issued, failed, lastLookup, ops, madeBy, meddled, seen>>

\* ------------------------------------------------------------ hypervisor
Present(u) == u \in UUIDs /\ pools[u].present

\* (mutant) the lookup by name never finds a pool
NameNeverInUse(n) == FALSE

\* LookupStoragePoolByName finds a pool
NameInUse(n) == \E u \in UUIDs : pools[u].present /\ pools[u].name = n

\* The target path libvirt generates for a logical pool
DevPath(n) == "/dev/" \o n

\* A pool as StoragePoolDefineXML stores it: defined, inactive, no autostart
DefinedPool(def) ==
    [name |-> def.name, type |-> def.type,
     path |-> IF def.type = "logical" THEN DevPath(def.name)
              ELSE IF def.target = NoTarget THEN "" ELSE def.target,
     active |-> FALSE, autostart |-> FALSE, present |-> TRUE]

\* No description: the read did not get as far as parsing one
NoDesc == [type |-> "", name |-> "", target |-> NoTarget]

\* GetXMLDesc followed by xml.Unmarshal into libvirtxml.StoragePool
Describe(pool) ==
    [type |-> pool.type, name |-> pool.name,
     target |-> IF pool.path = "" THEN NoTarget ELSE pool.path]

\* Pools that were defined outside the tool, as an import finds them: a dir
\* pool, a logical pool, a pool of a kind without a target path, and a pool
\* whose description carries no type
ExternalPools ==
    { [name |-> "a", type |-> "dir", path |-> "/x", active |-> TRUE,
       autostart |-> FALSE, present |-> TRUE],
      [name |-> "a", type |-> "logical", path |-> DevPath("a"), active |-> TRUE,
       autostart |-> FALSE, present |-> TRUE],
      [name |-> "a", type |-> "rbd", path |-> "", active |-> TRUE,
       autostart |-> FALSE, present |-> TRUE],
      [name |-> "a", type |-> "", path |-> "/z", active |-> TRUE,
       autostart |-> FALSE, present |-> TRUE] }

\* Outcomes of LookupStoragePoolByUUIDString
LookupOutcomes(u) ==
    IF Present(u) THEN {"ok", "other"} ELSE {"nopool", "other"}

\* ------------------------------------------------------------- create

SupportedType(t) == t = "dir" \/ t = "logical"

\* (mutant) the path checks are left out
NoPathCheck(s) ==
    IF s.type = "dir" /\ s.devices # 0 THEN "source_devices forbidden"
    ELSE "none"

\* The type-specific checks of create
ValidationError(s) ==
    IF s.type = "dir"
    THEN IF s.path = "" THEN "path required"
         ELSE IF s.devices # 0 THEN "source_devices forbidden"
         ELSE "none"
    ELSE IF s.path # "" THEN "path forbidden"
    ELSE "none"

\* (mutant) every pool is built
AlwaysBuild(s) == TRUE

\* needToBuild
NeedToBuild(s) == ~(s.type = "logical" /\ s.devices = 0)

\* poolDef
PoolDef(s) ==
    IF s.type = "dir"
    THEN [type |-> "dir", name |-> s.name, target |-> s.path, devices |-> 0]
    ELSE [type |-> "logical", name |-> s.name, target |-> NoTarget,
          devices |-> s.devices]

\* transformResourceXML: no stylesheet leaves the definition as it is
TransformFails(s) == s.xslt # ""

\* (mutant) the name lock is not waited for
LockAlwaysFree(n) == TRUE

\* (mutant) one lock for all names
NoLockHeld(n) == \A m \in Names : lock[m] = NoProc

\* client.poolMutexKV.Lock(poolName) returns once nobody holds the name
LockFree(n) == lock[n] = NoProc

\* defer client.poolMutexKV.Unlock(poolName)
Unlock(n) == [lock EXCEPT ![n] = NoProc]

TypeOK ==
    /\ pools \in [UUIDs -> [name : Names \cup {""}, type : Types \cup {"", "rbd"},
                            path : STRING, active : BOOLEAN,
                            autostart : BOOLEAN, present : BOOLEAN]]
    /\ nextUUID \in 1..(MaxUUID + 1)
    /\ lock \in [Names -> Procs \cup {NoProc}]
    /\ pc \in [Procs -> {"idle", "lock", "lookup", "prepare", "define", "build",
                         "autostart", "activate", "refresh", "getid", "poll",
                         "read"}]
    /\ handle \in [Procs -> UUIDs \cup {NoId}]
    /\ polls \in [Procs -> 0..MaxPollAttempts]
    /\ ops \in 0..MaxOps
    /\ found \in [Procs -> BOOLEAN]
    /\ failed \in [Procs -> BOOLEAN]
    /\ madeBy \in [UUIDs -> Procs \cup {NoProc}]
    /\ meddled \subseteq UUIDs

Init ==
    /\ pools = [u \in UUIDs |-> NoPool]
    /\ nextUUID = 1
    /\ lock = [n \in Names |-> NoProc]
    /\ cfg = [p \in Procs |-> NoSpec]
    /\ st = [p \in Procs |-> NoState]
    /\ pc = [p \in Procs |-> "idle"]
    /\ handle = [p \in Procs |-> NoId]
    /\ polls = [p \in Procs |-> 0]
    /\ op = [p \in Procs |-> "none"]
    /\ err = [p \in Procs |-> "none"]
    /\ found = [p \in Procs |-> FALSE]
    /\ issued = [p \in Procs |-> <<>>]
    /\ failed = [p \in Procs |-> FALSE]
    /\ lastLookup = [p \in Procs |-> "none"]
    /\ ops = 0
    /\ madeBy = [u \in UUIDs |-> NoProc]
    /\ meddled = {}
    /\ seen = [p \in Procs |-> NoDesc]

\* read, exists or delete is invoked on instance p, which has an id; the
\* model allows max such invocations
Invoke(p, o, max) ==
    /\ pc[p] = "idle"
    /\ st[p].id # NoId
    /\ ops < max
    /\ ops' = ops + 1
    /\ op' = [op EXCEPT ![p] = o]
    /\ issued' = [issued EXCEPT ![p] = <<>>]

\* (mutant) the return path does not unlock
NotReleased(n) == lock

\* The lock registry after create has returned: the deferred Unlock has run
Released(n) == Unlock(n)

\* create returns e after the lock was taken; its locals are gone
ReturnLocked(p, e) ==
    /\ pc' = [pc EXCEPT ![p] = "idle"]
    /\ err' = [err EXCEPT ![p] = e]
    /\ lock' = Released(cfg[p].name)
    /\ handle' = [handle EXCEPT ![p] = NoId]
    /\ polls' = [polls EXCEPT ![p] = 0]

\* (mutant) the name lock is released when create goes on to its read
GotoUnlockingBeforeRead(p, next) ==
    /\ pc' = [pc EXCEPT ![p] = next]
    /\ lock' = IF next = "read" THEN Unlock(cfg[p].name) ELSE lock
    /\ UNCHANGED <<err, handle, polls>>

\* a step of create succeeded: go on to the next one
Goto(p, next) ==
    /\ pc' = [pc EXCEPT ![p] = next]
    /\ UNCHANGED <<err, lock, handle, polls>>

\* the invocation issues a hypervisor call
Log(p, call) == issued' = [issued EXCEPT ![p] = Append(issued[p], call)]

\* a call of the invocation returned an error (f)
Failed(p, f) == failed' = [failed EXCEPT ![p] = failed[p] \/ f]

\* create is invoked with a declared configuration; the type check
CreateBegin(p, s) ==
    /\ pc[p] = "idle"
    /\ op[p] = "none"
    /\ op' = [op EXCEPT ![p] = "create"]
    /\ cfg' = [cfg EXCEPT ![p] = s]
    /\ st' = [st EXCEPT ![p] = [id |-> NoId, name |-> s.name, type |-> s.type,
                                path |-> s.path, info |-> FALSE]]
    /\ failed' = [failed EXCEPT ![p] = FALSE]
    /\ lastLookup' = [lastLookup EXCEPT ![p] = "none"]
    /\ IF SupportedType(s.type)
       THEN /\ pc' = [pc EXCEPT ![p] = "lock"]
            /\ err' = [err EXCEPT ![p] = "none"]
       ELSE /\ pc' = pc
            /\ err' = [err EXCEPT ![p] = "unsupported"]
    /\ UNCHANGED <<seen, madeBy, meddled, pools, nextUUID, lock, handle, polls, found,
                   issued, ops>>

\* client.poolMutexKV.Lock(poolName)
CreateLock(p) ==
    /\ pc[p] = "lock"
    /\ LockFree(cfg[p].name)
    /\ lock' = [lock EXCEPT ![cfg[p].name] = p]
    /\ pc' = [pc EXCEPT ![p] = "lookup"]
    /\ UNCHANGED <<seen, madeBy, meddled, pools, nextUUID, cfg, st, handle, polls, op,
                   err, found, issued, failed, lastLookup, ops>>

\* LookupStoragePoolByName: a nil error is the conflict, any error goes on
CreateLookup(p) ==
    /\ pc[p] = "lookup"
    /\ Log(p, "lookupByName")
    /\ \E ok \in BOOLEAN :
        /\ ok => NameInUse(cfg[p].name)
        /\ Failed(p, ~ok /\ NameInUse(cfg[p].name))
        /\ IF ok THEN ReturnLocked(p, "conflict") ELSE Goto(p, "prepare")
    /\ UNCHANGED <<seen, madeBy, meddled, pools, nextUUID, cfg, st, op, found, lastLookup, ops>>

\* (mutant) the pool is defined before its configuration is validated
CreatePrepareAfterDefine(p) ==
    /\ pc[p] = "prepare"
    /\ IF ValidationError(cfg[p]) # "none"
       THEN /\ ReturnLocked(p, "validation")
            /\ pools' = [pools EXCEPT ![nextUUID] = DefinedPool(PoolDef(cfg[p]))]
            /\ nextUUID' = nextUUID + 1
            /\ madeBy' = [madeBy EXCEPT ![nextUUID] = p]
       ELSE /\ IF TransformFails(cfg[p]) THEN ReturnLocked(p, "transform")
               ELSE Goto(p, "define")
            /\ UNCHANGED <<pools, nextUUID, madeBy>>
    /\ UNCHANGED <<seen, meddled, cfg, st, op, found, issued, failed, lastLookup, ops>>

\* type-specific validation, the definition, its serialization and transform
CreatePrepare(p) ==
    /\ pc[p] = "prepare"
    /\ IF ValidationError(cfg[p]) # "none" THEN ReturnLocked(p, "validation")
       ELSE IF TransformFails(cfg[p]) THEN ReturnLocked(p, "transform")
       ELSE Goto(p, "define")
    /\ UNCHANGED <<seen, madeBy, meddled, pools, nextUUID, cfg, st, op, found, issued,
                   failed,
                   lastLookup, ops>>

\* StoragePoolDefineXML
CreateDefine(p) ==
    /\ pc[p] = "define"
    /\ Log(p, "define")
    /\ \E ok \in BOOLEAN :
        IF ok
        THEN /\ pools' = [pools EXCEPT ![nextUUID] = DefinedPool(PoolDef(cfg[p]))]
             /\ nextUUID' = nextUUID + 1
             /\ handle' = [handle EXCEPT ![p] = nextUUID]
             /\ madeBy' = [madeBy EXCEPT ![nextUUID] = p]
             /\ pc' = [pc EXCEPT ![p] = IF NeedToBuild(cfg[p]) THEN "build"
                                        ELSE "autostart"]
             /\ UNCHANGED <<err, lock, polls, failed>>
        ELSE /\ ReturnLocked(p, "define")
             /\ Failed(p, TRUE)
             /\ UNCHANGED <<madeBy, pools, nextUUID>>
    /\ UNCHANGED <<seen, meddled, cfg, st, op, found, lastLookup, ops>>

\* SetAutostart(true)
SetAutostart(pool) == [pool EXCEPT !.autostart = TRUE]

\* pool.Create(0)
Activate(pool) == [pool EXCEPT !.active = TRUE]

\* What a successful call on the handle does to the pool; Build and Refresh
\* leave its flags as they are
Effect(step, pool) ==
    IF step = "autostart" THEN SetAutostart(pool)
    ELSE IF step = "activate" THEN Activate(pool)
    ELSE pool

\* (mutant) create goes on to the next step after a call on the handle failed
HandleCallIgnoresError(p, step, next) ==
    /\ pc[p] = step
    /\ Log(p, step)
    /\ \E ok \in BOOLEAN :
        /\ ok => Present(handle[p])
        /\ pools' = IF ok
                    THEN [pools EXCEPT ![handle[p]] = Effect(step, pools[handle[p]])]
                    ELSE pools
        /\ Goto(p, next)
        /\ Failed(p, ~ok)
    /\ UNCHANGED <<seen, madeBy, meddled, nextUUID, cfg, st, op, found, lastLookup,
                   ops>>

\* (mutant) a failed call on the handle undefines the pool
HandleCallRollsBack(p, step, next) ==
    /\ pc[p] = step
    /\ Log(p, step)
    /\ \E ok \in BOOLEAN :
        /\ ok => Present(handle[p])
        /\ IF ok
           THEN /\ pools' = [pools EXCEPT ![handle[p]] = Effect(step, pools[handle[p]])]
                /\ Goto(p, next)
                /\ failed' = failed
           ELSE /\ pools' = [pools EXCEPT ![handle[p]] = NoPool]
                /\ ReturnLocked(p, step)
                /\ Failed(p, TRUE)
    /\ UNCHANGED <<seen, madeBy, meddled, nextUUID, cfg, st, op, found, lastLookup,
                   ops>>

\* A call on the handle: succeeds only on a pool that is still there
HandleCall(p, step, next) ==
    /\ pc[p] = step
    /\ Log(p, step)
    /\ \E ok \in BOOLEAN :
        /\ ok => Present(handle[p])
        /\ IF ok
           THEN /\ pools' = [pools EXCEPT ![handle[p]] = Effect(step, pools[handle[p]])]
                /\ Goto(p, next)
                /\ failed' = failed
           ELSE /\ pools' = pools
                /\ ReturnLocked(p, step)
                /\ Failed(p, TRUE)
    /\ UNCHANGED <<seen, madeBy, meddled, nextUUID, cfg, st, op, found, lastLookup,
                   ops>>

\* pool.Build(0)
CreateBuild(p) == HandleCall(p, "build", "autostart")

\* pool.SetAutostart(true)
CreateAutostart(p) == HandleCall(p, "autostart", "activate")

\* pool.Create(0)
CreateActivate(p) == HandleCall(p, "activate", "refresh")

\* pool.Refresh(0)
CreateRefresh(p) == HandleCall(p, "refresh", "getid")

\* (mutant) the id is not recorded before the poll
RecordNothing(s, id) == s

\* d.SetId(id), and the partial-state record of the id
RecordId(s, id) == [s EXCEPT !.id = id]

\* pool.GetUUIDString, then d.SetId(id)
CreateGetId(p) ==
    /\ pc[p] = "getid"
    /\ Log(p, "getid")
    /\ \E ok \in BOOLEAN :
        /\ ok => Present(handle[p])
        /\ IF ok
           THEN /\ st' = [st EXCEPT ![p] = RecordId(@, handle[p])]
                /\ Goto(p, "poll")
                /\ failed' = failed
           ELSE /\ st' = st
                /\ ReturnLocked(p, "getid")
                /\ Failed(p, TRUE)
    /\ UNCHANGED <<seen, madeBy, meddled, pools, nextUUID, cfg, op, found, lastLookup, ops>>

\* poolWaitForExists: one lookup by id per attempt, a bounded number of them
CreatePoll(p) ==
    /\ pc[p] = "poll"
    /\ Log(p, "poll")
    /\ \E lk \in LookupOutcomes(st[p].id) :
        /\ lastLookup' = [lastLookup EXCEPT ![p] = lk]
        /\ Failed(p, lk # "ok")
        /\ IF lk = "ok" THEN Goto(p, "read")
           ELSE IF polls[p] + 1 >= MaxPollAttempts
           THEN ReturnLocked(p, "timeout")
           ELSE /\ polls' = [polls EXCEPT ![p] = polls[p] + 1]
                /\ UNCHANGED <<pc, err, lock, handle>>
    /\ UNCHANGED <<seen, madeBy, meddled, pools, nextUUID, cfg, st, op, found, ops>>

\* ------------------------------------------------------------- read

ReadFailures == {"none", "name", "info", "xml"}

\* (mutant) the path is not written
SkipPath(s, def) == s

\* (mutant) the path is written whatever the type and the target
WritePathAlways(s, def) ==
    [s EXCEPT !.path = IF def.target = NoTarget THEN "" ELSE def.target]

\* (mutant) the type is not written
SkipType(s, def) == s

\* d.Set("path", ...): not for a logical pool, not for an empty path
SetPath(s, def) ==
    IF def.type # "logical" /\ def.target # NoTarget
    THEN [s EXCEPT !.path = def.target] ELSE s

\* d.Set("type", ...): not for an empty type
SetType(s, def) ==
    IF def.type # "" THEN [s EXCEPT !.type = def.type] ELSE s

\* The attributes after a read of a found pool that fails at f
ReadAttrs(s, pool, f) ==
    LET s1 == IF f = "name" THEN s ELSE [s EXCEPT !.name = pool.name]
        s2 == IF f \in {"name", "info"} THEN s1 ELSE [s1 EXCEPT !.info = TRUE]
    IN  IF f # "none" THEN s2 ELSE SetType(SetPath(s2, Describe(pool)), Describe(pool))

\* (mutant) the id is kept when the pool is not found
ReadKeepsId(s) == s

\* The attributes after a read whose lookup returned no pool
ReadNotFound(s) == [s EXCEPT !.id = NoId]

\* resourceLibvirtPoolRead; e is the error it returns, and fresh tells
\* that the read is an invocation of its own
ReadBody(p, fresh, e) ==
    \E lk \in LookupOutcomes(st[p].id), f \in ReadFailures :
        /\ lk # "ok" => f = "none"
        /\ lastLookup' = [lastLookup EXCEPT ![p] = lk]
        /\ failed' = [failed EXCEPT ![p] = (~fresh /\ failed[p]) \/ lk # "ok"
                                                          \/ f # "none"]
        /\ st' = [st EXCEPT ![p] = IF lk = "ok"
                                   THEN ReadAttrs(@, pools[@.id], f)
                                   ELSE ReadNotFound(@)]
        /\ seen' = [seen EXCEPT ![p] = IF lk = "ok" /\ f = "none"
                                        THEN Describe(pools[st[p].id])
                                        ELSE NoDesc]
        /\ e = IF f = "none" THEN "none" ELSE "read"

\* return resourceLibvirtPoolRead(d, meta), then the deferred Unlock
CreateRead(p) ==
    /\ pc[p] = "read"
    /\ Log(p, "read")
    /\ \E e \in {"none", "read"} : ReadBody(p, FALSE, e) /\ ReturnLocked(p, e)
    /\ UNCHANGED <<madeBy, meddled, pools, nextUUID, cfg, op, found, ops>>

\* resourceLibvirtPoolRead invoked on its own, one of at most max invocations
ReadOp(p, max) ==
    /\ Invoke(p, "read", max)
    /\ \E e \in {"none", "read"} :
        /\ ReadBody(p, TRUE, e)
        /\ err' = [err EXCEPT ![p] = e]
    /\ UNCHANGED <<madeBy, meddled, pools, nextUUID, lock, cfg, pc, handle,
                   polls, found>>

Read(p) == ReadOp(p, MaxOps)

\* ------------------------------------------------------------- exists

\* (mutant) every lookup error is fatal
ExistsAnyErrorFatal(lk) ==
    IF lk = "ok" THEN <<TRUE, "none">> ELSE <<FALSE, "exists">>

\* The (bool, error) resourceLibvirtPoolExists returns for a lookup outcome
ExistsResult(lk) ==
    IF lk = "ok" THEN <<TRUE, "none">>
    ELSE IF lk = "nopool" THEN <<FALSE, "none">>
    ELSE <<FALSE, "exists">>

\* resourceLibvirtPoolExists
Exists(p) ==
    /\ Invoke(p, "exists", MaxOps)
    /\ \E lk \in LookupOutcomes(st[p].id) :
        /\ lastLookup' = [lastLookup EXCEPT ![p] = lk]
        /\ failed' = [failed EXCEPT ![p] = lk # "ok"]
        /\ found' = [found EXCEPT ![p] = ExistsResult(lk)[1]]
        /\ err' = [err EXCEPT ![p] = ExistsResult(lk)[2]]
    /\ seen' = [seen EXCEPT ![p] = NoDesc]
    /\ UNCHANGED <<madeBy, meddled, pools, nextUUID, lock, cfg, st, pc, handle,
                   polls>>

\* ------------------------------------------------------------- delete

DeleteFailures == {"none", "stop", "undefine"}

\* (mutant) a pool that is already gone is an error
DeleteErrorWhenGone(lk, f) ==
    IF lk = "ok" /\ f = "none" THEN "none" ELSE "delete"

\* deletePool's error for a lookup outcome and a failing step
DeleteError(lk, f) ==
    IF lk = "nopool" THEN "none"
    ELSE IF lk = "other" THEN "delete"
    ELSE IF f = "none" THEN "none" ELSE "delete"

\* The pool after deletePool found it and failed at f
DeletedPool(pool, f) ==
    IF f = "stop" THEN pool
    ELSE IF f = "undefine" THEN [pool EXCEPT !.active = FALSE]
    ELSE NoPool

\* resourceLibvirtPoolDelete: deletePool(client, d.Id())
Delete(p) ==
    /\ Invoke(p, "delete", MaxOps)
    /\ \E lk \in LookupOutcomes(st[p].id), f \in DeleteFailures :
        /\ lk # "ok" => f = "none"
        /\ f = "stop" => pools[st[p].id].active
        /\ lastLookup' = [lastLookup EXCEPT ![p] = lk]
        /\ failed' = [failed EXCEPT ![p] = lk # "ok" \/ f # "none"]
        /\ err' = [err EXCEPT ![p] = DeleteError(lk, f)]
        /\ pools' = IF lk = "ok"
                    THEN [pools EXCEPT ![st[p].id] = DeletedPool(pools[st[p].id], f)]
                    ELSE pools
        /\ meddled' = IF lk = "ok" THEN meddled \cup {st[p].id} ELSE meddled
    /\ seen' = [seen EXCEPT ![p] = NoDesc]
    /\ UNCHANGED <<madeBy, nextUUID, lock, cfg, st, pc, handle, polls, found>>

\* ------------------------------------------------------------- import

\* schema.ImportStatePassthrough: the instance starts from an id alone
Import(p, u) ==
    /\ pc[p] = "idle"
    /\ op[p] = "none"
    /\ u < nextUUID
    /\ st' = [st EXCEPT ![p].id = u]
    /\ op' = [op EXCEPT ![p] = "import"]
    /\ UNCHANGED <<seen, madeBy, meddled, pools, nextUUID, lock, cfg, pc, handle,
                   polls, err, found, issued, failed, lastLookup, ops>>

\* ------------------------------------------------- outside the tool

\* A pool is stopped and undefined outside the tool
ExternalRemove(u) ==
    /\ Present(u)
    /\ pools' = [pools EXCEPT ![u] = NoPool]
    /\ meddled' = meddled \cup {u}
    /\ UNCHANGED <<seen, madeBy, nextUUID, lock, cfg, st, pc, handle, polls, op, err,
                   found, issued, failed, lastLookup, ops>>

\* The definition of a pool is replaced outside the tool, under its UUID
ExternalRedefine(u) ==
    /\ Present(u)
    /\ \E e \in ExternalPools :
        /\ Describe(e) # Describe(pools[u])
        /\ pools' = [pools EXCEPT ![u] = [e EXCEPT !.active = pools[u].active,
                                                  !.autostart = pools[u].autostart]]
    /\ meddled' = meddled \cup {u}
    /\ UNCHANGED <<seen, madeBy, nextUUID, lock, cfg, st, pc, handle, polls, op, err,
                   found, issued, failed, lastLookup, ops>>

Next ==
    \/ \E p \in Procs, s \in PoolSpecs : CreateBegin(p, s)
    \/ \E p \in Procs : CreateLock(p)
    \/ \E p \in Procs : CreateLookup(p)
    \/ \E p \in Procs : CreatePrepare(p)
    \/ \E p \in Procs : CreateDefine(p)
    \/ \E p \in Procs : CreateBuild(p)
    \/ \E p \in Procs : CreateAutostart(p)
    \/ \E p \in Procs : CreateActivate(p)
    \/ \E p \in Procs : CreateRefresh(p)
    \/ \E p \in Procs : CreateGetId(p)
    \/ \E p \in Procs : CreatePoll(p)
    \/ \E p \in Procs : CreateRead(p)
    \/ \E p \in Procs : Read(p)
    \/ \E p \in Procs : Exists(p)
    \/ \E p \in Procs : Delete(p)
    \/ \E p \in Procs, u \in UUIDs : Import(p, u)
    \/ \E u \in UUIDs : ExternalRemove(u)

Spec == Init /\ [][Next]_vars

\* --------------------------------------------- reads of a drifting pool

\* Reads under drift are checked in a specification of their own, with the
\* pool defined outside the tool and imported, so that the creates of Spec
\* and the redefinitions of this one do not multiply each other's states.

\* The UUID of the pool that was defined outside the tool
ExternalUUID == 1

\* One pool was defined outside the tool before the tool ran
DriftInit ==
    /\ \E e \in ExternalPools :
           pools = [u \in UUIDs |-> IF u = ExternalUUID THEN e ELSE NoPool]
    /\ nextUUID = ExternalUUID + 1
    /\ lock = [n \in Names |-> NoProc]
    /\ cfg = [p \in Procs |-> NoSpec]
    /\ st = [p \in Procs |-> NoState]
    /\ pc = [p \in Procs |-> "idle"]
    /\ handle = [p \in Procs |-> NoId]
    /\ polls = [p \in Procs |-> 0]
    /\ op = [p \in Procs |-> "none"]
    /\ err = [p \in Procs |-> "none"]
    /\ found = [p \in Procs |-> FALSE]
    /\ issued = [p \in Procs |-> <<>>]
    /\ failed = [p \in Procs |-> FALSE]
    /\ lastLookup = [p \in Procs |-> "none"]
    /\ ops = 0
    /\ madeBy = [u \in UUIDs |-> NoProc]
    /\ meddled = {}
    /\ seen = [p \in Procs |-> NoDesc]

\* resourceLibvirtPoolRead on an imported pool
DriftRead(p) == ReadOp(p, MaxDriftOps)

\* Instances import the pool and read it while it is redefined or removed
\* outside the tool
DriftNext ==
    \/ \E p \in Procs, u \in UUIDs : Import(p, u)
    \/ \E p \in Procs : DriftRead(p)
    \/ \E u \in UUIDs : ExternalRedefine(u)
    \/ \E u \in UUIDs : ExternalRemove(u)

DriftSpec == DriftInit /\ [][DriftNext]_vars

\* ------------------------------------------------------------ properties

\* operation o, invoked on instance p, has returned
Returned(p, o) == pc[p] = "idle" /\ op[p] = o

\* p's create is between taking the name lock and releasing it
InLockedSection(p) == pc[p] \notin {"idle", "lock"}

\* a dir configuration that passes create's checks and whose stylesheet,
\* if it has one, applies
ValidDir(s) ==
    s.type = "dir" /\ s.path # "" /\ s.devices = 0 /\ ~TransformFails(s)

\* the hypervisor calls that change a pool
Mutating == {"define", "build", "autostart", "activate", "refresh"}

\* the calls of p's invocation, as a set
Calls(p) == {issued[p][i] : i \in 1..Len(issued[p])}

\* how many creates issued StoragePoolDefineXML
Defines == Cardinality({p \in Procs : op[p] = "create" /\ "define" \in Calls(p)})

\* C1: two creates of valid dir configurations with the same name, every
\* hypervisor call of which succeeded (the lookup by name of the free name
\* apart) and none of whose pools was removed or deleted meanwhile: one
\* returns nil, the other the conflict error, and one pool was defined.
C1_OneCreateWins ==
    \A p, q \in Procs :
        ( /\ p # q
          /\ Returned(p, "create") /\ Returned(q, "create")
          /\ cfg[p].name = cfg[q].name
          /\ ValidDir(cfg[p]) /\ ValidDir(cfg[q])
          /\ ~failed[p] /\ ~failed[q]
          /\ meddled = {} )
        => /\ {err[p], err[q]} = {"none", "conflict"}
           /\ Defines = 1

C1_Witness ==
    /\ Returned("p1", "create") /\ Returned("p2", "create")
    /\ cfg["p1"].name = cfg["p2"].name
    /\ ValidDir(cfg["p1"]) /\ ValidDir(cfg["p2"])
    /\ ~failed["p1"] /\ ~failed["p2"] /\ meddled = {}
    /\ err["p1"] = "conflict" /\ err["p2"] = "none"

\* C2: two creates for the same name are never both between the lock and
\* its release, so their lookup, define, build, autostart and activate calls
\* never interleave.
C2_OneCreatePerName ==
    \A p, q \in Procs :
        (p # q /\ InLockedSection(p) /\ InLockedSection(q))
        => cfg[p].name # cfg[q].name

C2_Witness ==
    /\ pc["p1"] = "activate"
    /\ pc["p2"] = "lock"
    /\ cfg["p1"].name = cfg["p2"].name

\* C3: a create that has returned holds no lock, whatever its exit; a lock
\* is given up only by its holder, in the step in which the holder returns,
\* and taken only by a create that waits for it.
C3_LockReleasedOnEveryExit ==
    [][ /\ \A p \in Procs : pc'[p] = "idle" => \A n \in Names : lock'[n] # p
        /\ \A n \in Names :
            lock'[n] # lock[n] =>
                \/ /\ lock[n] # NoProc /\ lock'[n] = NoProc
                   /\ pc[lock[n]] # "idle" /\ pc'[lock[n]] = "idle"
                   /\ cfg[lock[n]].name = n
                \/ /\ lock[n] = NoProc
                   /\ pc[lock'[n]] = "lock" /\ pc'[lock'[n]] = "lookup"
      ]_vars

C3_Witness ==
    /\ Returned("p1", "create") /\ err["p1"] = "timeout"
    /\ Returned("p2", "create") /\ err["p2"] = "conflict"
    /\ cfg["p1"].name = cfg["p2"].name
    /\ \A n \in Names : lock[n] = NoProc

\* C4: a read of an instance whose recorded pool is gone from the hypervisor
\* returns nil and leaves the id empty.
C4_ReadOfRemovedPool ==
    [][ \A p \in Procs :
          ((Read(p) \/ CreateRead(p)) /\ ~Present(st[p].id))
          => (err'[p] = "none" /\ st'[p].id = NoId) ]_vars

C4_Witness ==
    \E p \in Procs, u \in UUIDs :
        /\ Returned(p, "read") /\ madeBy[u] = p
        /\ ~Present(u)
        /\ err[p] = "none" /\ st[p].id = NoId

\* C5: a delete whose lookup reports that there is no such pool returns nil
\* (so does a second delete of the id, or one after a removal outside the
\* tool), and after a delete that returned nil no pool has the id.
C5_DeleteIdempotent ==
    \A p \in Procs :
        Returned(p, "delete") =>
            /\ lastLookup[p] = "nopool" => err[p] = "none"
            /\ err[p] = "none" => ~Present(st[p].id)

C5_Witness ==
    \E p \in Procs :
        /\ Returned(p, "delete") /\ lastLookup[p] = "nopool" /\ err[p] = "none"
        /\ ops = 2 /\ \A q \in Procs \ {p} : op[q] = "none"
        /\ madeBy[st[p].id] = p /\ st[p].id \in meddled

\* C6: the existence check returns (true, nil) exactly when its lookup by id
\* succeeds, (false, nil) exactly when the lookup reports no such pool, and
\* (false, error) on any other lookup failure; it changes neither the
\* recorded attributes nor the hypervisor.
C6_ExistsProtocol ==
    [][ \A p \in Procs :
          Exists(p) =>
            /\ (found'[p] /\ err'[p] = "none") <=> lastLookup'[p] = "ok"
            /\ (~found'[p] /\ err'[p] = "none") <=> lastLookup'[p] = "nopool"
            /\ (~found'[p] /\ err'[p] # "none") <=> lastLookup'[p] = "other"
            /\ found'[p] => Present(st[p].id)
            /\ st' = st /\ pools' = pools ]_vars

C6_Witness ==
    \E p, q \in Procs :
        /\ Returned(p, "exists") /\ ~found[p] /\ err[p] = "none"
        /\ Returned(q, "exists") /\ found[q] /\ err[q] = "none"

\* a dir configuration without a path, a logical one with a path
BadPath(s) ==
    (s.type = "dir" /\ s.path = "") \/ (s.type = "logical" /\ s.path # "")

\* C7 as stated: a create of a dir pool without a path, or of a logical pool
\* with a path, fails with the validation error before it has made any
\* hypervisor call, the lookup by name included.
C7_ValidationBeforeAnyCall ==
    \A p \in Procs :
        (Returned(p, "create") /\ BadPath(cfg[p]))
        => (err[p] = "validation" /\ issued[p] = <<>>)

\* C7 as amended: such a create makes one hypervisor call, the lookup by
\* name, and then fails, with the validation error or, when the lookup found
\* the name in use, with the conflict error; it makes no other call.
C7_ValidationAfterLookup ==
    \A p \in Procs :
        (op[p] = "create" /\ BadPath(cfg[p])) =>
            /\ pc[p] \in {"idle", "lock", "lookup", "prepare"}
            /\ Calls(p) \subseteq {"lookupByName"}
            /\ pc[p] = "idle" => /\ issued[p] = <<"lookupByName">>
                                 /\ err[p] \in {"validation", "conflict"}
                                 /\ st[p].id = NoId

C7_Witness ==
    \E p, q \in Procs :
        /\ Returned(p, "create") /\ cfg[p].type = "dir" /\ cfg[p].path = ""
        /\ err[p] = "validation" /\ issued[p] = <<"lookupByName">>
        /\ Returned(q, "create") /\ cfg[q].type = "logical" /\ cfg[q].path # ""
        /\ err[q] = "validation" /\ issued[q] = <<"lookupByName">>

\* the errors create returns before it has changed anything
EarlyErrors == {"unsupported", "conflict", "validation"}

\* C8: the steps of a create up to and including its validation leave the
\* hypervisor's pools and the recorded id as they are, and a create that
\* returns the unsupported-type, conflict or validation error has issued
\* no define, build, autostart, activate or refresh call.
C8_EarlyFailureChangesNothing ==
    [][ \A p \in Procs :
          /\ ( \/ (op[p] = "none" /\ op'[p] = "create")
               \/ (pc[p] \in {"lock", "lookup", "prepare"} /\ pc'[p] # pc[p]) )
             => (pools' = pools /\ nextUUID' = nextUUID /\ st'[p].id = NoId)
          /\ (pc'[p] = "idle" /\ op'[p] = "create" /\ err'[p] \in EarlyErrors)
             => /\ \A i \in 1..Len(issued'[p]) : issued'[p][i] \notin Mutating
                /\ st'[p].id = NoId
                /\ \A u \in UUIDs : madeBy'[u] # p ]_vars

C8_Witness ==
    \E p \in Procs, u \in UUIDs :
        /\ Returned(p, "create") /\ err[p] = "conflict"
        /\ cfg[p].type = "dir" /\ cfg[p].devices # 0
        /\ issued[p] = <<"lookupByName">> /\ st[p].id = NoId
        /\ Present(u) /\ madeBy[u] # p /\ pools[u].name = cfg[p].name
        /\ pools[u].active /\ pools[u].autostart

C10_SuccessIsConfirmed ==
    \A p \in Procs :
        (Returned(p, "create") /\ err[p] = "none") =>
            \E u \in UUIDs :
                /\ madeBy[u] = p
                /\ u \notin meddled =>
                    /\ st[p].id = u /\ u # NoId
                    /\ Present(u) /\ pools[u].name = cfg[p].name
                    /\ pools[u].active /\ pools[u].autostart
                    /\ Len(issued[p]) >= 2
                    /\ issued[p][Len(issued[p]) - 1] = "poll"
                    /\ issued[p][Len(issued[p])] = "read"

\* ------------------------------------------------ order of create's steps

\* create's hypervisor calls in the order the code makes them
StepOrder == <<"lookupByName", "define", "build", "autostart", "activate",
               "refresh", "getid", "poll", "read">>

Rank(c) == CHOOSE i \in 1..Len(StepOrder) : StepOrder[i] = c

\* call b may come right after call a in a create of configuration s
Follows(a, b, s) ==
    IF a = "define" THEN b = (IF NeedToBuild(s) THEN "build" ELSE "autostart")
    ELSE IF a = "poll" THEN b \in {"poll", "read"}
    ELSE IF a = "read" THEN FALSE
    ELSE b = StepOrder[Rank(a) + 1]

\* the calls p's create has issued are in create's order, none left out
InOrder(p) ==
    LET log == issued[p]
    IN  /\ log # <<>> => log[1] = "lookupByName"
        /\ \A i \in 1..(Len(log) - 1) : Follows(log[i], log[i + 1], cfg[p])

\* the steps before the one p's create is at have succeeded: their effects
\* are there, unless something else acted on the pool meanwhile
EarlierSucceeded(p) ==
    LET u == handle[p]
    IN  /\ pc[p] \in {"build", "autostart", "activate", "refresh", "getid",
                      "poll", "read"}
            => u # NoId /\ madeBy[u] = p
        /\ (pc[p] \in {"activate", "refresh", "getid", "poll", "read"}
              /\ u \notin meddled) => pools[u].autostart
        /\ (pc[p] \in {"refresh", "getid", "poll", "read"} /\ u \notin meddled)
            => pools[u].active
        /\ pc[p] \in {"poll", "read"} => st[p].id = u
        /\ pc[p] = "read" => lastLookup[p] = "ok"

\* the errors of the steps from the define to the id
StepErrors == {"define", "build", "autostart", "activate", "refresh", "getid"}

\* the call p's create made last is the one that decided its result
EndsAtFailure(p) ==
    LET log == issued[p]
    IN  /\ err[p] \in StepErrors => log # <<>> /\ log[Len(log)] = err[p]
        /\ err[p] = "timeout" => log # <<>> /\ log[Len(log)] = "poll"
        /\ err[p] \in {"none", "read"} => log # <<>> /\ log[Len(log)] = "read"
        /\ err[p] \in {"conflict", "validation", "transform"}
            => log = <<"lookupByName">>
        /\ err[p] = "unsupported" => log = <<>>

Positions(p, c) == {i \in 1..Len(issued[p]) : issued[p][i] = c}

\* a dir pool, or a logical pool with at least one source device
WantsBuild(s) == s.type = "dir" \/ (s.type = "logical" /\ s.devices >= 1)

\* C12: a create that has gone past its define has invoked build once, right
\* after the define and right before set-autostart, when the pool is a dir
\* pool or a logical pool with a source device; for a logical pool without
\* source devices it invokes no build, and set-autostart follows the define.
C12_BuildOnceWhenNeeded ==
    \A p \in Procs :
        op[p] = "create" =>
            /\ Cardinality(Positions(p, "build")) <= 1
            /\ \A i \in Positions(p, "build") :
                    WantsBuild(cfg[p]) /\ issued[p][i - 1] = "define"
            /\ \A i \in Positions(p, "autostart") :
                    IF WantsBuild(cfg[p])
                    THEN issued[p][i - 1] = "build" /\ issued[p][i - 2] = "define"
                    ELSE issued[p][i - 1] = "define"
                         /\ Positions(p, "build") = {}
            /\ (pc[p] = "idle" /\ err[p] = "none")
                => Cardinality(Positions(p, "build"))
                       = (IF WantsBuild(cfg[p]) THEN 1 ELSE 0)

\* a create of a logical pool without source devices succeeded without build
C12_Witness ==
    \E p \in Procs :
        /\ Returned(p, "create") /\ err[p] = "none" /\ st[p].id # NoId
        /\ cfg[p].type = "logical" /\ cfg[p].devices = 0
        /\ Positions(p, "build") = {}
        /\ Positions(p, "define") # {}

\* ------------------------------------------------- the id and the poll

\* C13: create records the id in the step that obtains it, before the first
\* lookup of the existence poll; a create whose poll used up its attempts
\* returns the timeout error, has made no read, and its recorded id is
\* still the UUID of the pool it defined.
C13_IdRecordedBeforePoll ==
    \A p \in Procs :
        op[p] = "create" =>
            /\ pc[p] \in {"lock", "lookup", "prepare", "define", "build",
                          "autostart", "activate", "refresh", "getid"}
                => st[p].id = NoId
            /\ pc[p] = "poll"
                => /\ st[p].id # NoId /\ st[p].id = handle[p]
                   /\ madeBy[st[p].id] = p
                   /\ Cardinality(Positions(p, "poll")) = polls[p]
            /\ (pc[p] = "idle" /\ err[p] = "timeout")
                => /\ Positions(p, "read") = {}
                   /\ Cardinality(Positions(p, "poll")) = MaxPollAttempts
                   /\ st[p].id # NoId /\ madeBy[st[p].id] = p

C13_Witness ==
    \E p \in Procs :
        /\ Returned(p, "create") /\ err[p] = "timeout"
        /\ st[p].id # NoId /\ madeBy[st[p].id] = p
        /\ Positions(p, "read") = {}

\* ------------------------------------------- the lock and the final read

\* C14 as stated: the name lock is released before create's final read
\* starts, so a create that is at its read does not hold the lock.
C14_ReadOutsideLock ==
    \A p \in Procs : pc[p] = "read" => lock[cfg[p].name] # p

\* C14 amended: a create that is at its final read still holds the lock of
\* its name, and no other create of that name is past its Lock; the lock is
\* free of the create once the read has returned.
C14_ReadInsideLock ==
    \A p \in Procs :
        /\ pc[p] = "read"
            => /\ lock[cfg[p].name] = p
               /\ \A q \in Procs \ {p} :
                      cfg[q].name = cfg[p].name => ~InLockedSection(q)
        /\ (Returned(p, "create") /\ Positions(p, "read") # {})
            => \A n \in Names : lock[n] # p

\* a create is at its read while a create of the same name waits for the lock
C14_Witness ==
    \E p, q \in Procs :
        /\ p # q /\ pc[p] = "read" /\ lock[cfg[p].name] = p
        /\ pc[q] = "lock" /\ cfg[q].name = cfg[p].name

\* ------------------------------------------- read and a failing lookup

\* C15: a read that has returned cleared the id and returned nil only when
\* its lookup reported that the pool is not there; when the lookup failed
\* for another reason the read returned an error and the id is as it was.
C15_ReadTellsLookupErrorsApart ==
    \A p \in Procs :
        Returned(p, "read") =>
            /\ (st[p].id = NoId /\ err[p] = "none") => lastLookup[p] = "nopool"
            /\ lastLookup[p] = "other" => (err[p] # "none" /\ st[p].id # NoId)

\* --------------------------------------- what a read of a found pool reports

\* p's last invocation is a read that found the pool and returned nil
FoundRead(p) == Returned(p, "read") /\ err[p] = "none" /\ lastLookup[p] = "ok"

\* C16 as stated: two reads that found the same live pool and returned nil
\* ended with the same name, type and path, whatever the instances held
\* before.
C16_ReadDeterminedByPool ==
    \A p, q \in Procs :
        (FoundRead(p) /\ FoundRead(q) /\ st[p].id = st[q].id
            /\ seen[p] = seen[q])
        => /\ st[p].name = st[q].name
           /\ st[p].type = st[q].type
           /\ st[p].path = st[q].path

\* the description has a type
Typed(def) == def.type # ""

\* the description has a path that read surfaces
Pathed(def) == def.type # "logical" /\ def.target # NoTarget

\* C16 amended: after a read that found the pool and returned nil the name
\* is the live pool's, the type is the live pool's when its description
\* has one, and the path is the live pool's when the pool is not logical
\* and has a target path; two such reads of the same live pool agree on
\* the name, on the type of a typed pool and on the path of such a pool.
C16_ReadDeterminedWhereWritten ==
    /\ \A p \in Procs :
          FoundRead(p) =>
              /\ st[p].name = seen[p].name
              /\ Typed(seen[p]) => st[p].type = seen[p].type
              /\ Pathed(seen[p]) => st[p].path = seen[p].target
    /\ \A p, q \in Procs :
          (FoundRead(p) /\ FoundRead(q) /\ st[p].id = st[q].id
              /\ seen[p] = seen[q])
          => /\ st[p].name = st[q].name
             /\ Typed(seen[p]) => st[p].type = st[q].type
             /\ Pathed(seen[p]) => st[p].path = st[q].path

\* two instances, one of which read the pool before it was redefined as a
\* dir pool, have read it since and agree
C16_Witness ==
    \E p, q \in Procs :
        /\ p # q /\ FoundRead(p) /\ FoundRead(q) /\ st[p].id = st[q].id
        /\ seen[p] = seen[q] /\ seen[p].type = "dir"
        /\ st[p].id \in meddled /\ ops = MaxDriftOps
        /\ st[p].type = "dir" /\ st[q].type = "dir"
        /\ st[p].path = seen[p].target /\ st[q].path = seen[p].target

\* C17: a read that finds a logical pool leaves the path attribute as it
\* was, whatever the pool's target path; and a read that finds a pool whose
\* description has no path or no type, and whose hypervisor calls succeed,
\* returns nil.
C17_LogicalPathNeverWritten ==
    [][\A p \in Procs :
          (DriftRead(p) /\ lastLookup'[p] = "ok") =>
              /\ pools[st[p].id].type = "logical" => st'[p].path = st[p].path
              /\ ((pools[st[p].id].path = "" \/ pools[st[p].id].type = "")
                    /\ ~failed'[p]) => err'[p] = "none"]_vars

\* one read found a logical pool and left the path alone, another found a
\* pool whose description has no path or no type
C17_Witness ==
    \E p, q \in Procs :
        /\ FoundRead(p) /\ seen[p].type = "logical"
        /\ seen[p].target # NoTarget /\ st[p].path # seen[p].target
        /\ FoundRead(q) /\ (seen[q].target = NoTarget \/ seen[q].type = "")

\* ------------------------------------------------ creates of other names

\* the step p's create takes next
CreateStep(p) ==
    \/ CreateLock(p) \/ CreateLookup(p) \/ CreatePrepare(p) \/ CreateDefine(p)
    \/ CreateBuild(p) \/ CreateAutostart(p) \/ CreateActivate(p)
    \/ CreateRefresh(p) \/ CreateGetId(p) \/ CreatePoll(p) \/ CreateRead(p)

\* C18: while a create holds the lock of its name, at whatever step, a
\* create of another name that has not returned can take its next step, the
\* Lock of its own name included: no create waits for a create of another
\* name.
C18_OtherNamesNotBlocked ==
    \A p, q \in Procs :
        (InLockedSection(p) /\ pc[q] # "idle" /\ cfg[q].name # cfg[p].name)
            => ENABLED CreateStep(q)

\* two creates of different names are inside their locked sections at once
C18_Witness ==
    \E p, q \in Procs :
        /\ pc[p] = "define" /\ lock[cfg[p].name] = p
        /\ pc[q] = "poll" /\ lock[cfg[q].name] = q
        /\ cfg[p].name # cfg[q].name

\* ------------------------------------------------------------ progress

\* the steps of p's create after it has the lock
CreateRun(p) ==
    \/ CreateLookup(p) \/ CreatePrepare(p) \/ CreateDefine(p)
    \/ CreateBuild(p) \/ CreateAutostart(p) \/ CreateActivate(p)
    \/ CreateRefresh(p) \/ CreateGetId(p) \/ CreatePoll(p) \/ CreateRead(p)

\* Creates alone, with pools removed outside the tool meanwhile
CreateNext ==
    \/ \E p \in Procs, s \in PoolSpecs : CreateBegin(p, s)
    \/ \E p \in Procs : CreateLock(p)
    \/ \E p \in Procs : CreateRun(p)
    \/ \E u \in UUIDs : ExternalRemove(u)

\* Every hypervisor call returns, and the mutex hands the lock to a waiter
FairSpec ==
    /\ Init /\ [][CreateNext]_vars
    /\ \A p \in Procs : WF_vars(CreateRun(p)) /\ SF_vars(CreateLock(p))

\* C19: with hypervisor calls that return, a bounded poll and a fair lock,
\* every create that has started returns, and every create that waits for
\* the lock of its name gets it, also when the holder before it failed.
C19_EveryCreateReturns ==
    \A p \in Procs :
        /\ (pc[p] # "idle") ~> (pc[p] = "idle")
        /\ (pc[p] = "lock") ~> (pc[p] = "lookup")

\* a create has the lock of a name whose previous holder failed after
\* its define
C19_Witness ==
    \E p, q \in Procs :
        /\ Returned(p, "create") /\ err[p] \in StepErrors \ {"define"}
        /\ cfg[q].name = cfg[p].name
        /\ pc[q] = "lookup" /\ lock[cfg[q].name] = q

\* ------------------------------------------------- failure after define

\* p's create returned the error of a step after its define
PostDefineFailure(p) ==
    Returned(p, "create") /\ err[p] \in StepErrors \ {"define"}

\* the pool p's create defined
PoolOf(p) == CHOOSE u \in UUIDs : madeBy[u] = p

\* p's pool is still defined under its name, unless a delete or the world
\* outside the tool acted on it, and p has no id recorded
LeftBehind(p) ==
    /\ st[p].id = NoId
    /\ \E u \in UUIDs : madeBy[u] = p
    /\ PoolOf(p) \notin meddled
        => Present(PoolOf(p)) /\ pools[PoolOf(p)].name = cfg[p].name

====
